---- MODULE Spec2Model ----
(***************************************************************************)
(* A model of the ECommerceAWS backend: the products, orders and           *)
(* order-events-fetch request handlers, the product-events and             *)
(* order-events functions that write the events table, the order-events    *)
(* topic with its three subscriptions, and the order-events queue with its *)
(* dead-letter queue.  Tables are sets of items with unique keys.          *)
(***************************************************************************)
EXTENDS Integers, Sequences, FiniteSets, TLC

\* ------------------------------------------------------------- bounds
MaxUuid == 2        \* each function calls uuid() at most this many times
MaxTime == 2        \* Date.now() ranges over 1..MaxTime
MaxInputs == 2      \* requests answered plus messages published or sent

\* ------------------------------------------------------ input domains
\* The n-th uuid a function generates: fresh, and unlike every other function's.
Uuid(fn, n) == (IF fn = "ProductsFunction" THEN "p" ELSE "o") \o ToString(n)
PathIds == {Uuid("ProductsFunction", n) : n \in 1..MaxUuid}
OrderIds == {Uuid("OrdersFunction", n) : n \in 1..MaxUuid}
Emails == {"alexander@inatel.br", "bob@inatel.br"}
ProductBodies ==
    { [productName |-> "n1", code |-> "c1", price |-> 10, model |-> "m1", productUrl |-> "u1"],
      [productName |-> "n2", code |-> "c2", price |-> 25, model |-> "m2", productUrl |-> "u2"] }
Resources == {"/products", "/products/{id}", "/orders", "/orders/events"}
Methods == {"GET", "POST", "PUT", "DELETE"}

VARIABLES
    productsDdb,      \* the products table: items keyed by id
    ordersDdb,        \* the orders table: items keyed by (pk, sk)
    eventsDdb,        \* the events table: items keyed by (pk, sk)
    invocations,      \* payloads for which the product-events function reported success
    published,        \* messages published on the order-events topic
    billingInbox,     \* topic messages delivered to the billing function
    orderEventsInbox, \* topic messages delivered to the order-events function
    orderEventsQueue, \* visible messages of the order-events queue
    inflight,         \* the batch handed to the order-emails handler
    orderEventsDlq,   \* the dead-letter queue
    handled,          \* ids of the messages of successful order-events invocations
    now,              \* Date.now()
    uuids,            \* number of uuids each function has generated so far
    reqNo,            \* number of handler invocations so far
    msgNo,            \* number of message ids handed out so far
    request,          \* the latest request
    response,         \* the answer to the latest request
    created           \* products answered by a 201, not yet target of a PUT or DELETE

vars == <<productsDdb, ordersDdb, eventsDdb, invocations, published, billingInbox,
          orderEventsInbox, orderEventsQueue, inflight, orderEventsDlq, handled, now,
          uuids,
          reqNo, msgNo, request, response, created>>

apiVars == <<productsDdb, ordersDdb, eventsDdb, invocations, uuids, reqNo, request,
             response, created>>
msgVars == <<published, billingInbox, orderEventsInbox, orderEventsQueue, inflight,
             orderEventsDlq, handled, msgNo>>

\* ----------------------------------------------------- table primitives
\* DocumentClient.put: the item replaces the item with the same key, if any.
PutById(table, item) == {i \in table : i.id # item.id} \cup {item}
PutByPkSk(table, item) ==
    {i \in table : ~(i.pk = item.pk /\ i.sk = item.sk)} \cup {item}

\* begins_with(str, prefix), and StringLike against a pattern "prefix*"
BeginsWith(str, prefix) ==
    Len(prefix) <= Len(str) /\ SubSeq(str, 1, Len(prefix)) = prefix

\* --------------------------------------- permissions on the events table
\* The statements that allow dynamodb:PutItem on the events table, each with
\* the function whose role it is attached to and the prefix its condition on
\* dynamodb:LeadingKeys demands ("" when the statement has no condition).
\* The '#product_*' statement is added to the handler of the products stack,
\* which is the products function; the product-events function gets the
\* table's grantWriteData.
PutItemStatements ==
    { [role |-> "OrderEventsFunction", leadingKeys |-> "#order_"],
      [role |-> "ProductsFunction", leadingKeys |-> "#product_"],
      [role |-> "ProductEventsFunction", leadingKeys |-> ""] }
\* A put is allowed when some statement of the function's role allows it.
PermittedPut(fn, pk) ==
    \E statement \in PutItemStatements :
        statement.role = fn /\ BeginsWith(pk, statement.leadingKeys)
\* Variant: a get that looks the key up in the wrong attribute.
GetByCode(table, id) == {i \in table : i.code = id}
GetById(table, id) == {i \in table : i.id = id}
\* Variant: the sort key of the key is ignored.
GetByPk(table, pk, sk) == {i \in table : i.pk = pk}
GetByPkSk(table, pk, sk) == {i \in table : i.pk = pk /\ i.sk = sk}

\* ------------------------------------------------------------ gateway
\* The methods the REST API declares, and the function each is integrated with.
Route(resource, method) ==
    CASE resource = "/products" /\ method \in {"POST", "GET"} -> "ProductsFunction"
      [] resource = "/products/{id}" /\ method \in {"GET", "PUT", "DELETE"} -> "ProductsFunction"
      [] resource = "/orders" /\ method \in {"POST", "GET", "DELETE"} -> "OrdersFunction"
      [] OTHER -> "none"

\* The gateway's parameter validator of DELETE /orders.
DeleteOrderValidator(resource, method, query) ==
    (resource = "/orders" /\ method = "DELETE") =>
        (query.present /\ query.email # "" /\ query.orderId # "")

\* How an event reaches a function: the gateway forwards a request on a declared
\* method that passes its validator; any other event is a direct invocation.
Via(fn, resource, method, query) ==
    IF Route(resource, method) = fn /\ DeleteOrderValidator(resource, method, query)
    THEN "gateway" ELSE "direct"

NoQuery == [present |-> FALSE, email |-> "", orderId |-> "", eventType |-> ""]

ApiRequestId(n) == "api" \o ToString(n)
LambdaRequestId(n) == "lambda" \o ToString(n)

createResponse(statusCode, body) == [statusCode |-> statusCode, body |-> body]
\* Variant: the identifiers are those the previous invocation left behind.
ErrorBodyOfPrevious(message, n) ==
    [message |-> message, ApiGwRequestId |-> ApiRequestId(n - 1),
     LambdaRequestId |-> LambdaRequestId(n - 1)]
\* The body of an error response of the n-th invocation.
ErrorBody(message, n) ==
    [message |-> message, ApiGwRequestId |-> ApiRequestId(n),
     LambdaRequestId |-> LambdaRequestId(n)]
NullBody == [null |-> TRUE]
\* The handler's promise rejects: the function invocation ends in an error.
UnhandledError == [statusCode |-> 502, body |-> [message |-> "Internal server error"]]

Request(fn, via, resource, method, pathId, query, n) ==
    [fn |-> fn, via |-> via, resource |-> resource, method |-> method,
     pathId |-> pathId, query |-> query, n |-> n]

Init ==
    /\ productsDdb = {}
    /\ ordersDdb = {}
    /\ eventsDdb = {}
    /\ invocations = {}
    /\ published = {}
    /\ billingInbox = {}
    /\ orderEventsInbox = {}
    /\ orderEventsQueue = {}
    /\ inflight = {}
    /\ orderEventsDlq = {}
    /\ handled = {}
    /\ now = 1
    /\ uuids = [fn \in {"ProductsFunction", "OrdersFunction"} |-> 0]
    /\ reqNo = 0
    /\ msgNo = 0
    /\ request = Request("none", "direct", "", "", "", NoQuery, 0)
    /\ response = createResponse(0, NullBody)
    /\ created = {}

\* Another request or message is accepted only within the bound.
InBudget == reqNo + msgNo < MaxInputs

\* Time passes.
Tick ==
    /\ now < MaxTime
    /\ now' = now + 1
    /\ UNCHANGED <<apiVars, msgVars>>

\* --------------------------------------------------- clock and numbers
\* Epoch milliseconds exceed the 32-bit integers of TLC, so an instant is kept as
\* the pair [hi, lo] standing for hi * 2^30 + lo, with 0 <= lo < 2^30.
P30 == 2^30
BigAdd(x, k) ==
    IF x.lo + k >= P30
    THEN [hi |-> x.hi + 1, lo |-> (x.lo + k) - P30]
    ELSE [hi |-> x.hi, lo |-> x.lo + k]
\* floor(x / 1000), for x.hi up to 2000.
BigDiv1000(x) ==
    LET a == x.hi * (P30 \div 1000)
        b == (x.hi * (P30 % 1000) + x.lo) \div 1000
    IN BigAdd([hi |-> a \div P30, lo |-> a % P30], b)
\* ~~x of a non-negative x: its low 32 bits read as a signed integer.
ToInt32(x) ==
    LET q == x.hi % 4
    IN IF q < 2 THEN q * P30 + x.lo ELSE (x.lo - P30) - (3 - q) * P30
\* Date.now() at the n-th reading of the clock: 2026-11-01, 2032-06-18 and,
\* from the third reading on, instants after 2038-01-19 03:14:08 UTC.
DateNow(n) == [hi |-> 1670 + 165 * (n - 1), lo |-> (343933952 + 500000999 * (n - 1)) % P30]

\* ---------------------------------------------- product-events function
\* createEvent: ttl = ~~(timestamp + (1000 + 5 * 60))
ProductTtl(timestamp) == ToInt32(BigAdd(DateNow(timestamp), 1000 + 5 * 60))
\* Variant: the event carries the product's code where its id belongs.
ProductEventOfCode(product, eventType, email, lambdaRequestId) ==
    [email |-> email, eventType |-> eventType, productCode |-> product.code,
     productId |-> product.code, productPrice |-> product.price,
     requestId |-> lambdaRequestId]
\* The payload sendProductEvent hands to the product-events function.
ProductEvent(product, eventType, email, lambdaRequestId) ==
    [email |-> email, eventType |-> eventType, productCode |-> product.code,
     productId |-> product.id, productPrice |-> product.price,
     requestId |-> lambdaRequestId]

\* Variant: the partition key is built from the product's id.
ProductEventItemById(event, timestamp) ==
    [pk |-> "#product_" \o event.productId,
     sk |-> event.eventType \o "#" \o ToString(timestamp),
     email |-> event.email,
     createdAt |-> timestamp,
     requestId |-> event.requestId,
     eventType |-> event.eventType,
     info |-> [productId |-> event.productId, price |-> event.productPrice],
     ttl |-> ProductTtl(timestamp)]
\* The item createEvent puts in the events table for a product event.
ProductEventItem(event, timestamp) ==
    [pk |-> "#product_" \o event.productCode,
     sk |-> event.eventType \o "#" \o ToString(timestamp),
     email |-> event.email,
     createdAt |-> timestamp,
     requestId |-> event.requestId,
     eventType |-> event.eventType,
     info |-> [productId |-> event.productId, price |-> event.productPrice],
     ttl |-> ProductTtl(timestamp)]

\* lambdaClient.invoke(RequestResponse) either rejects, or goes through: then
\* the product-events function starts its put and, without awaiting it,
\* reports success; the put has completed by then ("written") or it fails or
\* never completes ("lost").
InvokeOutcomes == {"written", "lost", "rejected"}
InvokeProductEvents(event, invoke) ==
    /\ eventsDdb' = IF /\ invoke = "written"
                       /\ PermittedPut("ProductEventsFunction",
                                       ProductEventItem(event, now).pk)
                    THEN PutByPkSk(eventsDdb, ProductEventItem(event, now))
                    ELSE eventsDdb
    /\ invocations' = IF invoke = "rejected" THEN invocations ELSE invocations \cup {event}
\* The message of the error with which a table rejects a write.
DdbErrorMessage == "The level of configured provisioned throughput for the table was exceeded."
InvokeErrorMessage == "Invoke failed"
ProductsEmail == "alexander@inatel.br"

\* --------------------------------------------------- products function
\* Variant: /products falls through to createProduct whatever the method.
ProductsDispatchNoMethodCheck(resource, method) ==
    IF resource = "/products"
    THEN IF method = "GET" THEN "getAllProducts" ELSE "createProduct"
    ELSE IF resource = "/products/{id}"
    THEN IF method = "GET" THEN "getProductById"
         ELSE IF method = "PUT" THEN "updateProduct"
         ELSE IF method = "DELETE" THEN "deleteProduct"
         ELSE "badRequest"
    ELSE "badRequest"
\* The branch the products handler takes for a resource and method.
ProductsDispatch(resource, method) ==
    IF resource = "/products"
    THEN IF method = "GET" THEN "getAllProducts"
         ELSE IF method = "POST" THEN "createProduct"
         ELSE "badRequest"
    ELSE IF resource = "/products/{id}"
    THEN IF method = "GET" THEN "getProductById"
         ELSE IF method = "PUT" THEN "updateProduct"
         ELSE IF method = "DELETE" THEN "deleteProduct"
         ELSE "badRequest"
    ELSE "badRequest"

\* What every invocation of the products handler does besides its branch.
ProductsInvoked(resource, method, pathId, branch) ==
    /\ InBudget
    /\ ProductsDispatch(resource, method) = branch
    /\ reqNo' = reqNo + 1
    /\ request' = Request("ProductsFunction", Via("ProductsFunction", resource, method, NoQuery),
                          resource, method, pathId, NoQuery, reqNo + 1)
    /\ UNCHANGED <<ordersDdb, now, msgVars>>

\* The product a POST body becomes once createProduct has given it an id.
NewProduct(id, body) ==
    [id |-> id, productName |-> body.productName, code |-> body.code,
     price |-> body.price, model |-> body.model, productUrl |-> body.productUrl]

\* The item DynamoDbHandler.updateProduct leaves and returns (UPDATED_NEW plus id).
UpdatedProduct(productId, body) ==
    [id |-> productId, productName |-> body.productName, code |-> body.code,
     price |-> body.price, model |-> body.model, productUrl |-> body.productUrl]

\* Variant: an update without its ConditionExpression.
AttributeExistsUnchecked(table, id) == TRUE
\* ConditionExpression attribute_exists(id) of the update.
AttributeExists(table, id) == GetById(table, id) # {}

GetAllProducts(resource, method) ==
    /\ ProductsInvoked(resource, method, "", "getAllProducts")
    /\ response' = createResponse(200, [items |-> productsDdb])
    /\ UNCHANGED <<productsDdb, eventsDdb, invocations, uuids, created>>

\* The put and the event are started together; the handler answers when both
\* have succeeded, and ends in an error when either has failed.
CreateProduct(resource, method, body, ddbOk, invoke) ==
    /\ ProductsInvoked(resource, method, "", "createProduct")
    /\ uuids["ProductsFunction"] < MaxUuid
    /\ uuids' = [uuids EXCEPT !["ProductsFunction"] = @ + 1]
    /\ LET product == NewProduct(Uuid("ProductsFunction", uuids["ProductsFunction"] + 1), body)
           event == ProductEvent(product, "PRODUCT_CREATED", ProductsEmail,
                                 LambdaRequestId(reqNo + 1))
           ok == ddbOk /\ invoke # "rejected"
       IN /\ productsDdb' = IF ddbOk THEN PutById(productsDdb, product) ELSE productsDdb
          /\ InvokeProductEvents(event, invoke)
          /\ response' = IF ok THEN createResponse(201, product) ELSE UnhandledError
          /\ created' = IF ok THEN created \cup {product} ELSE created

GetProductById(resource, method, productId) ==
    /\ ProductsInvoked(resource, method, productId, "getProductById")
    /\ LET found == GetById(productsDdb, productId)
       IN response' = IF found # {}
                      THEN createResponse(200, CHOOSE p \in found : TRUE)
                      ELSE createResponse(404, ErrorBody("Product not found", reqNo + 1))
    /\ UNCHANGED <<productsDdb, eventsDdb, invocations, uuids, created>>

UpdateProduct(resource, method, productId, body, ddbOk, invoke) ==
    /\ ProductsInvoked(resource, method, productId, "updateProduct")
    /\ created' = {p \in created : p.id # productId}
    /\ UNCHANGED uuids
    /\ IF ~AttributeExists(productsDdb, productId) \/ ~ddbOk
       THEN \* the update throws, and the catch answers
            /\ response' = createResponse(404, ErrorBody("Product not found", reqNo + 1))
            /\ UNCHANGED <<productsDdb, eventsDdb, invocations>>
       ELSE LET productUpdated == UpdatedProduct(productId, body)
                event == ProductEvent(productUpdated, "PRODUCT_UPDATED", ProductsEmail,
                                      LambdaRequestId(reqNo + 1))
            IN /\ productsDdb' = PutById(productsDdb, productUpdated)
               /\ InvokeProductEvents(event, invoke)
               /\ response' = IF invoke # "rejected"
                              THEN createResponse(200, productUpdated)
                              ELSE createResponse(404, ErrorBody("Product not found", reqNo + 1))

DeleteProduct(resource, method, productId, ddbOk, invoke) ==
    /\ ProductsInvoked(resource, method, productId, "deleteProduct")
    /\ created' = {p \in created : p.id # productId}
    /\ UNCHANGED uuids
    /\ LET found == GetById(productsDdb, productId)
       IN IF ~ddbOk
          THEN /\ response' = createResponse(404, ErrorBody(DdbErrorMessage, reqNo + 1))
               /\ UNCHANGED <<productsDdb, eventsDdb, invocations>>
          ELSE IF found = {}
          THEN /\ response' = createResponse(404, ErrorBody("Product not found", reqNo + 1))
               /\ UNCHANGED <<productsDdb, eventsDdb, invocations>>
          ELSE LET productDeleted == CHOOSE p \in found : TRUE
                   event == ProductEvent(productDeleted, "PRODUCT_DELETED", ProductsEmail,
                                         LambdaRequestId(reqNo + 1))
               IN /\ productsDdb' = productsDdb \ found
                  /\ InvokeProductEvents(event, invoke)
                  /\ response' = IF invoke # "rejected"
                                 THEN createResponse(204, NullBody)
                                 ELSE createResponse(404, ErrorBody(InvokeErrorMessage, reqNo + 1))

\* Events are proxy events: pathParameters accompany the resource /products/{id}.
ProductsBadRequest(resource, method) ==
    /\ ProductsInvoked(resource, method, "", "badRequest")
    /\ response' = createResponse(400, ErrorBody("Bad request", reqNo + 1))
    /\ UNCHANGED <<productsDdb, eventsDdb, invocations, uuids, created>>

\* Reads of the tables succeed; a write of the products table may be rejected.
ProductsFunction ==
    /\ InBudget
    /\ \E resource \in Resources, method \in Methods :
           \/ GetAllProducts(resource, method)
           \/ \E body \in ProductBodies, ddbOk \in BOOLEAN, invoke \in InvokeOutcomes :
                  CreateProduct(resource, method, body, ddbOk, invoke)
           \/ \E productId \in PathIds : GetProductById(resource, method, productId)
           \/ \E productId \in PathIds, body \in ProductBodies, ddbOk \in BOOLEAN,
                 invoke \in InvokeOutcomes :
                  UpdateProduct(resource, method, productId, body, ddbOk, invoke)
           \/ \E productId \in PathIds, ddbOk \in BOOLEAN, invoke \in InvokeOutcomes :
                  DeleteProduct(resource, method, productId, ddbOk, invoke)
           \/ ProductsBadRequest(resource, method)


\* ----------------------------------------------------- orders function
MaxOrderProducts == 2   \* longest productIds list of a request
ProductIdLists ==
    UNION {[1..n -> PathIds] : n \in 1..MaxOrderProducts}
PaymentTypes == {"CASH", "DEBIT_CARD", "CREDIT_CARD"}
Shippings == {[type |-> "ECONOMIC", carrier |-> "CORREIOS"],
              [type |-> "URGENT", carrier |-> "FEDEX"]}
\* Request bodies the gateway's OrderModel accepts (shipping is not required)
\* with a given productIds list, with or without a shipping.
OrderRequests(productIds, hasShipping) ==
    [email : Emails, productIds : {productIds}, payment : {"CASH", "CREDIT_CARD"},
     hasShipping : {hasShipping}, shipping : {[type |-> "ECONOMIC", carrier |-> "CORREIOS"]}]
\* Query strings: none at all, or email and orderId, each possibly missing.
OrderQueries ==
    {NoQuery} \cup
    [present : {TRUE}, email : Emails \cup {""}, orderId : OrderIds \cup {""},
     eventType : {""}]

\* The branch the orders handler takes for a resource and method.
OrdersDispatch(resource, method) ==
    IF resource = "/orders"
    THEN IF method = "GET" THEN "getOrders"
         ELSE IF method = "POST" THEN "createOrder"
         ELSE IF method = "DELETE" THEN "deleteOrder"
         ELSE "badRequest"
    ELSE "badRequest"

\* What every invocation of the orders handler does besides its branch; the
\* request is kept with its body.
OrdersInvoked(resource, method, query, body, branch) ==
    /\ InBudget
    /\ OrdersDispatch(resource, method) = branch
    /\ reqNo' = reqNo + 1
    /\ request' = [body |-> body] @@
                  Request("OrdersFunction", Via("OrdersFunction", resource, method, query),
                          resource, method, "", query, reqNo + 1)
    /\ UNCHANGED <<productsDdb, eventsDdb, invocations, created, now, msgVars>>

RECURSIVE SumPrices(_)
SumPrices(products) ==
    IF products = <<>> THEN 0
    ELSE Head(products).price + SumPrices(Tail(products))

\* Variant: the products embedded without their price.
OrderProductsUnpriced(products) ==
    [i \in 1..Len(products) |-> [code |-> products[i].code, price |-> 0]]
OrderProducts(products) ==
    [i \in 1..Len(products) |-> [code |-> products[i].code, price |-> products[i].price]]

\* Variant: the total is left at its initial value.
buildOrderNoTotal(orderRequest, products, sk, createdAt) ==
    [pk |-> orderRequest.email,
     sk |-> sk,
     createdAt |-> createdAt,
     billing |-> [payment |-> orderRequest.payment, totalPrice |-> 0],
     shipping |-> [type |-> orderRequest.shipping.type,
                   carrier |-> orderRequest.shipping.carrier],
     products |-> OrderProducts(products)]
buildOrder(orderRequest, products, sk, createdAt) ==
    [pk |-> orderRequest.email,
     sk |-> sk,
     createdAt |-> createdAt,
     billing |-> [payment |-> orderRequest.payment, totalPrice |-> SumPrices(products)],
     shipping |-> [type |-> orderRequest.shipping.type,
                   carrier |-> orderRequest.shipping.carrier],
     products |-> OrderProducts(products)]

convertToOrderResponse(order) ==
    IF Len(order.products) = 0
    THEN [email |-> order.pk, id |-> order.sk, createdAt |-> order.createdAt,
          billing |-> order.billing, shipping |-> order.shipping]
    ELSE [email |-> order.pk, id |-> order.sk, createdAt |-> order.createdAt,
          products |-> OrderProducts(order.products),
          billing |-> order.billing, shipping |-> order.shipping]

\* batchGet answers with the items found, in no particular order; it rejects a
\* key list that names a key twice.
HasDuplicates(seq) == \E i, j \in 1..Len(seq) : i # j /\ seq[i] = seq[j]
BatchGetAnswers(productIds) ==
    LET found == {p \in productsDdb : \E i \in 1..Len(productIds) : productIds[i] = p.id}
        n == Cardinality(found)
    IN {answer \in [1..n -> found] : \A i, j \in 1..n : i # j => answer[i] # answer[j]}

\* Variant: the delete's answer is never inspected.
OldItemReturnedAlways(found) == TRUE
\* deleteOrder returns when the delete's answer carries the old item (ALL_OLD),
\* and throws 'Order not found' otherwise.
OldItemReturned(found) == found # {}

\* The request's email and payment are drawn where they are first read, and
\* the request is kept with the part of its body that has been read.
CreateOrder(resource, method, productIds, hasShipping) ==
    LET read == [productIds |-> productIds, hasShipping |-> hasShipping]
    IN /\ InBudget
       /\ OrdersDispatch(resource, method) = "createOrder"
       /\ IF HasDuplicates(productIds)
          THEN /\ OrdersInvoked(resource, method, NoQuery, read, "createOrder")
               /\ response' = UnhandledError
               /\ UNCHANGED <<ordersDdb, uuids>>
          ELSE \E products \in BatchGetAnswers(productIds) :
               IF Len(products) = Len(productIds)
               THEN IF hasShipping
                    THEN /\ uuids["OrdersFunction"] < MaxUuid
                         /\ uuids' = [uuids EXCEPT !["OrdersFunction"] = @ + 1]
                         /\ \E orderRequest \in OrderRequests(productIds, hasShipping) :
                            LET order == buildOrder(orderRequest, products,
                                             Uuid("OrdersFunction", uuids["OrdersFunction"] + 1), now)
                            IN /\ OrdersInvoked(resource, method, NoQuery, orderRequest,
                                                "createOrder")
                               /\ ordersDdb' = PutByPkSk(ordersDdb, order)
                               /\ response' = createResponse(201, convertToOrderResponse(order))
                    ELSE \* orderRequest.shipping is undefined: buildOrder throws
                         /\ OrdersInvoked(resource, method, NoQuery, read, "createOrder")
                         /\ response' = UnhandledError
                         /\ UNCHANGED <<ordersDdb, uuids>>
               ELSE /\ OrdersInvoked(resource, method, NoQuery, read, "createOrder")
                    /\ response' = createResponse(404, ErrorBody("Some product was not found", reqNo + 1))
                    /\ UNCHANGED <<ordersDdb, uuids>>

GetOrders(resource, method, query) ==
    /\ OrdersInvoked(resource, method, query, NullBody, "getOrders")
    /\ response' =
         IF ~query.present
         THEN createResponse(200, [items |-> {convertToOrderResponse(o) : o \in ordersDdb}])
         ELSE IF query.email # ""
         THEN IF query.orderId # ""
              THEN LET found == GetByPkSk(ordersDdb, query.email, query.orderId)
                   IN IF found # {}
                      THEN createResponse(200, convertToOrderResponse(CHOOSE o \in found : TRUE))
                      ELSE createResponse(404, ErrorBody("Order not found", reqNo + 1))
              ELSE createResponse(200, [items |-> {convertToOrderResponse(o) :
                                                    o \in {x \in ordersDdb : x.pk = query.email}}])
         ELSE createResponse(400, ErrorBody("Bad request", reqNo + 1))
    /\ UNCHANGED <<ordersDdb, uuids>>

DeleteOrder(resource, method, query) ==
    /\ OrdersInvoked(resource, method, query, NullBody, "deleteOrder")
    /\ UNCHANGED uuids
    /\ IF query.present /\ query.email # "" /\ query.orderId # ""
       THEN LET found == GetByPkSk(ordersDdb, query.email, query.orderId)
            IN IF OldItemReturned(found)
               THEN /\ ordersDdb' = ordersDdb \ found
                    /\ response' = createResponse(204, NullBody)
               ELSE /\ response' = createResponse(404, ErrorBody("Order not found", reqNo + 1))
                    /\ UNCHANGED ordersDdb
       ELSE /\ response' = createResponse(400, ErrorBody("Bad request", reqNo + 1))
            /\ UNCHANGED ordersDdb

OrdersBadRequest(resource, method) ==
    /\ OrdersInvoked(resource, method, NoQuery, NullBody, "badRequest")
    /\ response' = createResponse(400, ErrorBody("Bad request", reqNo + 1))
    /\ UNCHANGED <<ordersDdb, uuids>>

OrdersFunction ==
    /\ InBudget
    /\ \E resource \in Resources, method \in Methods :
           \/ \E productIds \in ProductIdLists, hasShipping \in BOOLEAN :
                  CreateOrder(resource, method, productIds, hasShipping)
           \/ \E query \in OrderQueries : GetOrders(resource, method, query)
           \/ \E query \in OrderQueries : DeleteOrder(resource, method, query)
           \/ OrdersBadRequest(resource, method)


\* ------------------------------------------ order-events fetch function
FetchQueries ==
    {NoQuery} \cup
    [present : {TRUE}, email : Emails \cup {""}, orderId : {""},
     eventType : {"", "ORDER_CREATED", "PRODUCT_"}]

\* The branch the order-events fetch handler takes for a resource and method.
FetchDispatch(resource, method) ==
    IF resource = "/orders/events" /\ method = "GET" THEN "getOrderEvents"
    ELSE "badRequest"

\* query on emailIdx: KeyConditionExpression email = :email AND begins_with(sk, :prefix).
\* The index is the one the handler names and the fetch function's policy
\* allows to query: every item by email and sk, with the attributes
\* convertOrderEvents reads.
QueryEmailIdx(email, prefix) ==
    {i \in eventsDdb : i.email = email /\ BeginsWith(i.sk, prefix)}

\* Variant: the stored item returned as it is.
convertOrderEventWhole(orderEvent) == orderEvent
convertOrderEvent(orderEvent) ==
    IF "orderId" \in DOMAIN orderEvent.info
    THEN [email |-> orderEvent.email, createdAt |-> orderEvent.createdAt,
          eventType |-> orderEvent.eventType, requestId |-> orderEvent.requestId,
          orderId |-> orderEvent.info.orderId,
          productCodes |-> orderEvent.info.productCodes]
    ELSE \* info.orderId and info.productCodes are undefined: JSON.stringify drops them
         [email |-> orderEvent.email, createdAt |-> orderEvent.createdAt,
          eventType |-> orderEvent.eventType, requestId |-> orderEvent.requestId]
convertOrderEvents(orderEvents) == {convertOrderEvent(e) : e \in orderEvents}

FetchInvoked(resource, method, query, branch) ==
    /\ InBudget
    /\ FetchDispatch(resource, method) = branch
    /\ reqNo' = reqNo + 1
    /\ request' = Request("OrderEventsFetchFunction",
                          Via("OrderEventsFetchFunction", resource, method, query),
                          resource, method, "", query, reqNo + 1)
    /\ UNCHANGED <<productsDdb, ordersDdb, eventsDdb, invocations, uuids, created, now, msgVars>>

GetOrderEvents(resource, method, query) ==
    /\ FetchInvoked(resource, method, query, "getOrderEvents")
    /\ response' =
         IF ~query.present
         THEN \* queryStringParameters is null: the TypeError is caught
              createResponse(404, ErrorBody("Cannot read properties of null", reqNo + 1))
         ELSE IF query.email # ""
         THEN IF query.eventType # ""
              THEN createResponse(200, [items |->
                       convertOrderEvents(QueryEmailIdx(query.email, query.eventType))])
              ELSE createResponse(200, [items |->
                       convertOrderEvents(QueryEmailIdx(query.email, "ORDER_"))])
         ELSE createResponse(400, ErrorBody("Bad request", reqNo + 1))

FetchBadRequest(resource, method) ==
    /\ FetchInvoked(resource, method, NoQuery, "badRequest")
    /\ response' = createResponse(400, ErrorBody("Bad request", reqNo + 1))

OrderEventsFetchFunction ==
    /\ InBudget
    /\ \E resource \in Resources, method \in Methods :
           \/ \E query \in FetchQueries : GetOrderEvents(resource, method, query)
           \/ FetchBadRequest(resource, method)

\* A request on a method the REST API does not declare: the gateway answers
\* itself and invokes no function.
ApiGatewayNoRoute(resource, method) ==
    /\ InBudget
    /\ Route(resource, method) = "none"
    /\ reqNo' = reqNo + 1
    /\ request' = Request("none", "gateway", resource, method, "", NoQuery, reqNo + 1)
    /\ response' = createResponse(403, [message |-> "Missing Authentication Token"])
    /\ UNCHANGED <<productsDdb, ordersDdb, eventsDdb, invocations, uuids, created, now, msgVars>>

ApiGateway ==
    /\ InBudget
    /\ \E resource \in Resources, method \in Methods : ApiGatewayNoRoute(resource, method)

\* The products function alone, with the product-events function it invokes.
NextProducts == ProductsFunction \/ Tick
SpecProducts == Init /\ [][NextProducts]_vars

\* The orders function, and the products function that fills the table it reads.
NextOrders == ProductsFunction \/ OrdersFunction \/ Tick
SpecOrders == Init /\ [][NextOrders]_vars

\* The system after it has served requests: the products table holds the
\* products p1..pk that k POST /products have created and the orders table
\* the orders o1..on that n POST /orders have placed for them; the events of
\* these requests have expired from the events table.
StockedProducts(k) ==
    {NewProduct(Uuid("ProductsFunction", i),
                CHOOSE body \in ProductBodies : body.code = "c" \o ToString(i)) : i \in 1..k}
\* The orders an earlier POST /orders can have stored under id sk: an order
\* of all the products, paid in cash.
StockedOrders(products, sk) ==
    LET requests == {r \in UNION {OrderRequests(productIds, TRUE) :
                                     productIds \in ProductIdLists} : r.payment = "CASH"}
        AnswersTo(r) == {a \in [1..Cardinality(products) -> products] :
                            /\ Len(r.productIds) = Len(a)
                            /\ \A i \in DOMAIN a : a[i].id = r.productIds[i]}
    IN UNION {{buildOrder(r, answer, sk, 1) : answer \in AnswersTo(r)} : r \in requests}
InitStocked ==
    /\ \E k \in 1..2 :
           /\ productsDdb = StockedProducts(k)
           /\ created = StockedProducts(k)
           /\ \E n \in 1..2 :
                  /\ uuids = [fn \in {"ProductsFunction", "OrdersFunction"} |->
                                 IF fn = "ProductsFunction" THEN k ELSE n]
                  /\ \E stored \in [1..n -> UNION {StockedOrders(StockedProducts(k),
                                                       Uuid("OrdersFunction", i)) : i \in 1..n}] :
                         /\ \A i \in 1..n : stored[i].sk = Uuid("OrdersFunction", i)
                         /\ ordersDdb = {stored[i] : i \in 1..n}
    /\ eventsDdb = {}
    /\ invocations = {}
    /\ published = {}
    /\ billingInbox = {}
    /\ orderEventsInbox = {}
    /\ orderEventsQueue = {}
    /\ inflight = {}
    /\ orderEventsDlq = {}
    /\ handled = {}
    /\ now = 1
    /\ reqNo = 0
    /\ msgNo = 0
    /\ request = Request("none", "direct", "", "", "", NoQuery, 0)
    /\ response = createResponse(0, NullBody)
\* The requests that write the products table or the orders table, served
\* while the products table and the product-events function answer; a new
\* order is an order of one product.
ProductWrites ==
    /\ InBudget
    /\ \E productId \in PathIds :
           \/ \E body \in ProductBodies :
                  UpdateProduct("/products/{id}", "PUT", productId, body, TRUE, "written")
           \/ DeleteProduct("/products/{id}", "DELETE", productId, TRUE, "written")
OrderWrites ==
    /\ InBudget
    /\ \/ \E productId \in PathIds : CreateOrder("/orders", "POST", <<productId>>, TRUE)
       \/ \E query \in OrderQueries : DeleteOrder("/orders", "DELETE", query)
NextStocked == ProductWrites \/ OrderWrites
SpecStocked == InitStocked /\ [][NextStocked]_vars

\* The three request handlers and the gateway.
NextApi == ProductsFunction \/ OrdersFunction \/ OrderEventsFetchFunction \/ ApiGateway \/ Tick
SpecApi == Init /\ [][NextApi]_vars

\* ------------------------------------------------- order-events topic
\* Payloads (the Message of a topic message) and eventType attributes.
OrderEvents ==
    { [email |-> "bob@inatel.br", orderId |-> "o1", productCodes |-> <<"c1">>,
       requestId |-> "lambda1"],
      [email |-> "alexander@inatel.br", orderId |-> "o2", productCodes |-> <<"c1", "c2">>,
       requestId |-> "lambda2"] }
EventTypeAttribute(value) == {[Name |-> "eventType", Value |-> value]}
MessageAttributeSets ==
    {{}} \cup {EventTypeAttribute(v) : v \in {"ORDER_CREATED", "ORDER_DELETED", "ORDER_SHIPPED"}}
MessageId(n) == "m" \o ToString(n)

\* Variant: the billing subscription without its filter policy.
SubscriptionsNoBillingFilter ==
    { [endpoint |-> "OrderEventsFunction", filtered |-> FALSE, allowlist |-> {}],
      [endpoint |-> "BillingFunction", filtered |-> FALSE, allowlist |-> {}],
      [endpoint |-> "order-events", filtered |-> TRUE,
       allowlist |-> {"ORDER_CREATED", "ORDER_DELETED"}] }
\* The topic's subscriptions, each with its filter policy on eventType, if any.
Subscriptions ==
    { [endpoint |-> "OrderEventsFunction", filtered |-> FALSE, allowlist |-> {}],
      [endpoint |-> "BillingFunction", filtered |-> TRUE, allowlist |-> {"ORDER_CREATED"}],
      [endpoint |-> "order-events", filtered |-> TRUE,
       allowlist |-> {"ORDER_CREATED", "ORDER_DELETED"}] }

Matches(subscription, message) ==
    \/ ~subscription.filtered
    \/ \E a \in message.MessageAttributes :
           a.Name = "eventType" /\ a.Value \in subscription.allowlist

Delivers(endpoint, message) ==
    \E subscription \in Subscriptions :
        subscription.endpoint = endpoint /\ Matches(subscription, message)

\* A message of the order-events queue; valid says whether its body is JSON.
QueueMessage(messageId, valid) ==
    [MessageId |-> messageId, valid |-> valid, receiveCount |-> 0, failures |-> 0]

\* A message is published on the topic and fans out to the subscriptions. A
\* message delivered to the queue is wrapped in the topic's JSON envelope.
Publish(attributes, orderEvent) ==
    /\ InBudget
    /\ msgNo' = msgNo + 1
    /\ LET message == [MessageId |-> MessageId(msgNo + 1),
                       MessageAttributes |-> attributes, Message |-> orderEvent]
       IN /\ published' = published \cup {message}
          /\ orderEventsInbox' = IF Delivers("OrderEventsFunction", message)
                                 THEN orderEventsInbox \cup {message} ELSE orderEventsInbox
          /\ billingInbox' = IF Delivers("BillingFunction", message)
                             THEN billingInbox \cup {message} ELSE billingInbox
          /\ orderEventsQueue' = IF Delivers("order-events", message)
                                 THEN orderEventsQueue \cup {QueueMessage(message.MessageId, TRUE)}
                                 ELSE orderEventsQueue
    /\ UNCHANGED <<apiVars, inflight, orderEventsDlq, handled, now>>

\* ---------------------------------------------- order-events function
\* Variant: the order ttl computed as the product ttl is.
OrderTtlOfMillis(timestamp) == ToInt32(BigAdd(DateNow(timestamp), 1000 + 5 * 60))
\* createEvent: ttl = ~~(timestamp / 1000 + 5 * 60)
OrderTtl(timestamp) == ToInt32(BigAdd(BigDiv1000(DateNow(timestamp)), 5 * 60))
\* The item createEvent puts in the events table for a topic record.
OrderEventItem(body, eventType, timestamp) ==
    [pk |-> "#order_" \o body.Message.orderId,
     sk |-> eventType \o "#" \o ToString(timestamp),
     email |-> body.Message.email,
     createdAt |-> timestamp,
     requestId |-> body.Message.requestId,
     eventType |-> eventType,
     info |-> [orderId |-> body.Message.orderId,
               productCodes |-> body.Message.productCodes,
               messageId |-> body.MessageId],
     ttl |-> OrderTtl(timestamp)]

\* The values of a record's eventType attribute: none when it is missing, and
\* createEvent then throws before it starts a put.
EventTypeOf(record) ==
    {a.Value : a \in {x \in record.MessageAttributes : x.Name = "eventType"}}

\* The tables the puts of items, running in parallel, can leave: of the items
\* with one key the table keeps one, whichever put is served last.
PutAllByPkSk(table, items) ==
    LET SameKey(i, j) == i.pk = j.pk /\ i.sk = j.sk
        kept == {i \in table : \A j \in items : ~SameKey(i, j)}
    IN {kept \cup last : last \in
           {c \in SUBSET items :
               /\ \A j \in items : \E i \in c : SameKey(i, j)
               /\ \A i, j \in c : SameKey(i, j) => i = j}}

\* Variant: the handler returning without awaiting its promises.
SucceedsUnawaited(records, put) == TRUE
\* await Promise.all(promises): the invocation succeeds when createEvent threw
\* for no record and the put of every record resolved.
Succeeds(records, put) == put = records

\* The function is invoked with records of the topic; put are the records whose
\* item is written. A record without an eventType attribute has none: the
\* throw of createEvent ends the loop, and the rejection of one put ends the
\* invocation while the others may or may not complete. Delivery is at least
\* once: the records may be delivered again, as the retry of a failed
\* invocation or as the duplicate of a successful one.
OrderEventsFunction(records, put, redeliver) ==
    /\ records # {}
    /\ records \subseteq orderEventsInbox
    /\ put \subseteq {r \in records : EventTypeOf(r) # {}}
    /\ LET items == {OrderEventItem(r, CHOOSE v \in EventTypeOf(r) : TRUE, now) : r \in put}
       IN /\ \A i \in items : PermittedPut("OrderEventsFunction", i.pk)
          /\ eventsDdb' \in PutAllByPkSk(eventsDdb, items)
    /\ handled' = IF Succeeds(records, put)
                  THEN handled \cup {r.MessageId : r \in records} ELSE handled
    /\ orderEventsInbox' = IF redeliver THEN orderEventsInbox
                           ELSE orderEventsInbox \ records
    /\ UNCHANGED <<productsDdb, ordersDdb, invocations, uuids, reqNo, request, response,
                   created, published, billingInbox, orderEventsQueue, inflight,
                   orderEventsDlq, msgNo, now>>

\* ------------------------------- order-events queue and order-emails function
batchSize == 5
maxReceiveCount == 3

\* A sender puts a message straight on the queue; its body need not be JSON.
SendMessage(valid) ==
    /\ InBudget
    /\ msgNo' = msgNo + 1
    /\ orderEventsQueue' = orderEventsQueue \cup {QueueMessage(MessageId(msgNo + 1), valid)}
    /\ UNCHANGED <<apiVars, published, billingInbox, orderEventsInbox, inflight,
                   orderEventsDlq, handled, now>>

\* Variant: the redrive threshold taken one receive too late.
ReceivableOnceMore(m) == m.receiveCount <= maxReceiveCount
\* A message that has been received maxReceiveCount times is not received again.
Receivable(m) == m.receiveCount < maxReceiveCount

\* The event source receives a batch and hands it to the order-emails function.
ReceiveMessages(batch) ==
    /\ inflight = {}
    /\ batch # {}
    /\ batch \subseteq orderEventsQueue
    /\ Cardinality(batch) <= batchSize
    /\ \A m \in batch : Receivable(m)
    /\ orderEventsQueue' = orderEventsQueue \ batch
    /\ inflight' = {[m EXCEPT !.receiveCount = @ + 1] : m \in batch}
    /\ UNCHANGED <<apiVars, published, billingInbox, orderEventsInbox, orderEventsDlq,
                   handled, msgNo, now>>

\* The handler parses every record's body. When one throws the invocation fails
\* and the whole batch becomes visible again; otherwise the batch is deleted.
OrderEmailsFunction ==
    /\ inflight # {}
    /\ IF \A record \in inflight : record.valid
       THEN UNCHANGED orderEventsQueue
       ELSE orderEventsQueue' =
                orderEventsQueue \cup {[m EXCEPT !.failures = @ + 1] : m \in inflight}
    /\ inflight' = {}
    /\ UNCHANGED <<apiVars, published, billingInbox, orderEventsInbox, orderEventsDlq,
                   handled, msgNo, now>>

\* The redrive policy moves a message that may not be received again.
Redrive(m) ==
    /\ m \in orderEventsQueue
    /\ ~Receivable(m)
    /\ orderEventsQueue' = orderEventsQueue \ {m}
    /\ orderEventsDlq' = orderEventsDlq \cup {m}
    /\ UNCHANGED <<apiVars, published, billingInbox, orderEventsInbox, inflight, handled,
                   msgNo, now>>

\* The topic, delivering the function one record at a time; its put completes.
Topic ==
    \/ \E attributes \in MessageAttributeSets, orderEvent \in OrderEvents :
           Publish(attributes, orderEvent)
    \/ \E record \in orderEventsInbox :
           OrderEventsFunction({record}, {r \in {record} : EventTypeOf(r) # {}}, FALSE)

Queue ==
    \/ \E valid \in BOOLEAN : SendMessage(valid)
    \/ \E batch \in SUBSET orderEventsQueue : ReceiveMessages(batch)
    \/ OrderEmailsFunction
    \/ \E m \in orderEventsQueue : Redrive(m)

\* The topic with its subscribers and the queue with its consumer.
NextMessaging == Topic \/ Queue \/ Tick
SpecMessaging == Init /\ [][NextMessaging]_vars

\* The two writers of the events table.
NextEvents == ProductsFunction \/ Topic \/ Tick
SpecEvents == Init /\ [][NextEvents]_vars

\* The events table with its two writers and its reader.
NextFetch == ProductsFunction \/ Topic \/ OrderEventsFetchFunction \/ Tick
SpecFetch == Init /\ [][NextFetch]_vars

\* The order-events function with batches of records, puts that fail and
\* deliveries that are repeated.
OrderEventsDeliveries ==
    \/ \E attributes \in {{}, EventTypeAttribute("ORDER_CREATED")} :
           \E orderEvent \in OrderEvents : Publish(attributes, orderEvent)
    \/ \E records \in SUBSET orderEventsInbox : \E put \in SUBSET records :
           \E redeliver \in BOOLEAN : OrderEventsFunction(records, put, redeliver)
NextOrderEvents == OrderEventsDeliveries \/ Tick
SpecOrderEvents == Init /\ [][NextOrderEvents]_vars

\* The whole system.
Next == NextApi \/ Topic \/ Queue
Spec == Init /\ [][Next]_vars

\* ===================================================================
\* Properties
\* ===================================================================

\* ------------------------------------------------------------------ C1
C1_IsGetOf(p) ==
    /\ request.fn = "ProductsFunction"
    /\ request.resource = "/products/{id}"
    /\ request.method = "GET"
    /\ request.pathId = p.id

\* C1: a product P answered by POST /products with 201 and then fetched by
\* GET /products/{id} with P's id, with no PUT or DELETE of that id in between,
\* is answered 200 with P's id, productName, code, price, model and productUrl.
C1_CreateThenFetch ==
    \A p \in created :
        C1_IsGetOf(p) =>
            /\ response.statusCode = 200
            /\ response.body.id = p.id
            /\ response.body.productName = p.productName
            /\ response.body.code = p.code
            /\ response.body.price = p.price
            /\ response.body.model = p.model
            /\ response.body.productUrl = p.productUrl

\* A created product has just been fetched by its id.
C1_Fetched ==
    \E p \in created : C1_IsGetOf(p) /\ response.statusCode = 200 /\ response.body = p

\* ------------------------------------------------------------------ C2
C2_DeleteOfAbsent ==
    /\ reqNo' = reqNo + 1
    /\ request'.fn = "OrdersFunction"
    /\ request'.resource = "/orders"
    /\ request'.method = "DELETE"
    /\ request'.query.present
    /\ request'.query.email # ""
    /\ request'.query.orderId # ""
    /\ \A o \in ordersDdb :
           ~(o.pk = request'.query.email /\ o.sk = request'.query.orderId)

C3_PutOfAbsent ==
    /\ reqNo' = reqNo + 1
    /\ request'.fn = "ProductsFunction"
    /\ request'.resource = "/products/{id}"
    /\ request'.method = "PUT"
    /\ \A p \in productsDdb : p.id # request'.pathId

\* C3: PUT /products/{id} for an id the products table does not hold is
\* answered 404, creates no item (the table is unchanged) and sends no
\* PRODUCT_UPDATED event.
C3_UpdateAbsentProduct ==
    [][C3_PutOfAbsent =>
           /\ response'.statusCode = 404
           /\ productsDdb' = productsDdb
           /\ invocations' = invocations
           /\ eventsDdb' = eventsDdb]_vars

\* A PUT of an absent id has been answered while the table holds another product.
C3_Put404 ==
    /\ request.fn = "ProductsFunction"
    /\ request.resource = "/products/{id}"
    /\ request.method = "PUT"
    /\ productsDdb # {}
    /\ \A p \in productsDdb : p.id # request.pathId
    /\ response.statusCode = 404

\* ------------------------------------------------------------------ C4
C4_Answered404 ==
    /\ reqNo' = reqNo + 1
    /\ request'.fn = "ProductsFunction"
    /\ request'.resource = "/products/{id}"
    /\ request'.method \in {"PUT", "DELETE"}
    /\ response'.statusCode = 404

\* C4: when PUT or DELETE /products/{id} is answered 404, the product did not
\* exist and the products table is unchanged.
C4_NotFoundOnly ==
    [][C4_Answered404 =>
           /\ \A p \in productsDdb : p.id # request'.pathId
           /\ productsDdb' = productsDdb]_vars

\* ------------------------------------------------------------------ C5
C5_Published(eventType, orderId) ==
    \E m \in published :
        /\ m.Message.orderId = orderId
        /\ \E a \in m.MessageAttributes : a.Name = "eventType" /\ a.Value = eventType

\* C5: once POST /orders has been answered 201 an ORDER_CREATED message for
\* that order is on the topic, and once DELETE /orders has been answered 204
\* an ORDER_DELETED message for that order is on the topic.
C5_LifecyclePublished ==
    /\ (request.fn = "OrdersFunction" /\ request.method = "POST"
            /\ response.statusCode = 201)
           => C5_Published("ORDER_CREATED", response.body.id)
    /\ (request.fn = "OrdersFunction" /\ request.method = "DELETE"
            /\ response.statusCode = 204)
           => C5_Published("ORDER_DELETED", request.query.orderId)

\* ------------------------------------------------------------------ C6
\* The resource and method pairs each handler recognises.
C6_Recognised(fn, resource, method) ==
    \/ fn = "ProductsFunction" /\ resource = "/products" /\ method \in {"GET", "POST"}
    \/ fn = "ProductsFunction" /\ resource = "/products/{id}"
           /\ method \in {"GET", "PUT", "DELETE"}
    \/ fn = "OrdersFunction" /\ resource = "/orders" /\ method \in {"GET", "POST", "DELETE"}
    \/ fn = "OrderEventsFetchFunction" /\ resource = "/orders/events" /\ method = "GET"

C6_Unrecognised ==
    /\ reqNo' = reqNo + 1
    /\ request'.fn \in {"ProductsFunction", "OrdersFunction", "OrderEventsFetchFunction"}
    /\ ~C6_Recognised(request'.fn, request'.resource, request'.method)

\* C6: the products, orders and order-events fetch handlers answer a request
\* whose resource and method they do not recognise with 400 and the message
\* 'Bad request', write to no table and emit no event.
C6_BadRequest ==
    [][C6_Unrecognised =>
           /\ response'.statusCode = 400
           /\ response'.body.message = "Bad request"
           /\ UNCHANGED <<productsDdb, ordersDdb, eventsDdb, invocations, published>>]_vars

\* A handler has answered an unrecognised request while a table holds an item.
C6_Answered400 ==
    /\ request.fn \in {"ProductsFunction", "OrdersFunction", "OrderEventsFetchFunction"}
    /\ ~C6_Recognised(request.fn, request.resource, request.method)
    /\ response.statusCode = 400
    /\ productsDdb # {}

\* ------------------------------------------------------------------ C7
C7_Messages == orderEventsQueue \cup inflight \cup orderEventsDlq

\* C7: a message of the order-events queue is delivered at most 3 times; once
\* its processing has failed 3 times it is not delivered again, it leaves the
\* queue only for the dead-letter queue, and it stays there.
C7_DeadLetterAfterThree ==
    /\ [](/\ \A m \in C7_Messages : m.receiveCount <= 3
          /\ \A m \in inflight : m.failures < 3
          /\ \A m \in orderEventsDlq : m.failures = 3)
    /\ [][/\ \A m \in orderEventsQueue :
                 m.failures = 3 => (m \in orderEventsQueue' \/ m \in orderEventsDlq')
          /\ orderEventsDlq \subseteq orderEventsDlq']_vars

\* A message has failed three times and has been moved to the dead-letter queue.
C7_DeadLettered ==
    \E m \in orderEventsDlq : m.failures = 3 /\ m.receiveCount = 3

\* ------------------------------------------------------------------ C8
C8_EventTypeIn(m, eventTypes) ==
    \E a \in m.MessageAttributes : a.Name = "eventType" /\ a.Value \in eventTypes
C8_Queued(m, queue) == \E q \in queue : q.MessageId = m.MessageId

\* C8: of the messages published on the topic, the billing function receives
\* only ORDER_CREATED ones, the order-events queue receives only ORDER_CREATED
\* and ORDER_DELETED ones, and the order-events function receives every one.
C8_FanOut ==
    [][/\ \A m \in published' \ published :
              /\ m \in orderEventsInbox'
              /\ m \in billingInbox' => C8_EventTypeIn(m, {"ORDER_CREATED"})
              /\ C8_Queued(m, orderEventsQueue')
                     => C8_EventTypeIn(m, {"ORDER_CREATED", "ORDER_DELETED"})
       /\ billingInbox' \ billingInbox \subseteq published' \ published
       /\ orderEventsInbox' \ orderEventsInbox \subseteq published' \ published]_vars

\* An ORDER_DELETED message has reached the order-events function and the
\* queue, but not the billing function.
C8_DeletedFannedOut ==
    \E m \in published :
        /\ C8_EventTypeIn(m, {"ORDER_DELETED"})
        /\ m \in orderEventsInbox
        /\ m \notin billingInbox
        /\ C8_Queued(m, orderEventsQueue)

\* ------------------------------------------------------------------ C9
\* C9: a GET /orders/events that the REST API receives is routed to the
\* order-events fetch handler.
C9_EventsRouted ==
    (request.via = "gateway" /\ request.resource = "/orders/events"
         /\ request.method = "GET")
        => request.fn = "OrderEventsFetchFunction"

\* ----------------------------------------------------------------- C10
C10_IsOrderItem(i) == "orderId" \in DOMAIN i.info
C10_SortKey(i) == i.sk = i.eventType \o "#" \o ToString(i.createdAt)

\* C10 as stated: every events item has sk = eventType#timestamp; an order
\* item has pk '#order_' + the order's id and a product item has
\* pk '#product_' + the product's id.
C10_KeysEncodeIds ==
    \A i \in eventsDdb :
        /\ C10_SortKey(i)
        /\ IF C10_IsOrderItem(i)
           THEN i.pk = "#order_" \o i.info.orderId
           ELSE i.pk = "#product_" \o i.info.productId

\* C10: every events item has sk = eventType#timestamp; an order item has
\* pk '#order_' + the order's id, and a product item has pk '#product_' + the
\* code of the product whose event it records (its id is kept in info.productId).
C10_Keys ==
    \A i \in eventsDdb :
        /\ C10_SortKey(i)
        /\ IF C10_IsOrderItem(i)
           THEN i.pk = "#order_" \o i.info.orderId
           ELSE \E event \in invocations :
                    /\ event.requestId = i.requestId
                    /\ event.eventType = i.eventType
                    /\ event.productId = i.info.productId
                    /\ i.pk = "#product_" \o event.productCode

\* The events table holds an item of an order and an item of a product.
C10_BothKinds ==
    \E i, j \in eventsDdb : C10_IsOrderItem(i) /\ ~C10_IsOrderItem(j)

\* ----------------------------------------------------------------- C11
\* The epoch second 300 seconds after the instant createdAt names.
ExpirySecond(createdAt) == BigAdd(BigDiv1000(DateNow(createdAt)), 300)
\* The number n is the value of x.
BigEquals(x, n) == x.hi <= 1 /\ n = x.hi * P30 + x.lo
C11_IsProductItem(i) == "productId" \in DOMAIN i.info

\* C11: the ttl of every product event item is the epoch-seconds time 300
\* seconds after the item's createdAt.
C11_ProductTtl ==
    \A i \in eventsDdb :
        C11_IsProductItem(i) => BigEquals(ExpirySecond(i.createdAt), i.ttl)

\* ----------------------------------------------------------------- C12
\* createdAt / 1000 + 300 is below 2^31, so that ~~ leaves it as it is.
C12_Fits(createdAt) == ExpirySecond(createdAt).hi <= 1

\* C12: every order event item whose createdAt fits the 32-bit truncation has
\* ttl = floor(createdAt / 1000) + 300, a positive integer greater than
\* createdAt / 1000.
C12_OrderTtl ==
    \A i \in eventsDdb :
        (C10_IsOrderItem(i) /\ C12_Fits(i.createdAt)) =>
            LET seconds == BigDiv1000(DateNow(i.createdAt))
            IN /\ BigEquals(ExpirySecond(i.createdAt), i.ttl)
               /\ i.ttl > 0
               /\ i.ttl > seconds.hi * P30 + seconds.lo

\* An order event has been recorded at a later reading of the clock, one
\* whose milliseconds are not a whole second.
C12_OrderItemLater ==
    \E i \in eventsDdb :
        /\ C10_IsOrderItem(i)
        /\ i.createdAt > 1
        /\ C12_Fits(i.createdAt)
        /\ DateNow(i.createdAt).lo % 1000 # 0

\* ----------------------------------------------------------------- C13
\* The orders handler has just answered a POST /orders.
PostOrdersStep ==
    /\ reqNo' = reqNo + 1
    /\ request'.fn = "OrdersFunction"
    /\ request'.resource = "/orders"
    /\ request'.method = "POST"
RECURSIVE C13_Total(_)
C13_Total(orderProducts) ==
    IF orderProducts = <<>> THEN 0
    ELSE Head(orderProducts).price + C13_Total(Tail(orderProducts))
\* The order is the one a request body and the products table call for.
C13_Built(o, body) ==
    /\ o.pk = body.email
    /\ \A x \in ordersDdb : x.sk # o.sk
    /\ o.billing.payment = body.payment
    /\ o.shipping = body.shipping
    /\ Len(o.products) = Len(body.productIds)
    /\ \A k \in 1..Len(body.productIds) :
           \E p \in productsDdb :
               /\ p.id = body.productIds[k]
               /\ \E j \in 1..Len(o.products) :
                      o.products[j] = [code |-> p.code, price |-> p.price]
    /\ o.billing.totalPrice = C13_Total(o.products)

C15_Absent(productIds) ==
    \E k \in 1..Len(productIds) : \A p \in productsDdb : p.id # productIds[k]

\* C15: POST /orders answers 404 'Some product was not found' and stores no
\* order when one of the requested ids is absent from the products table;
\* otherwise, also when an id is requested more than once, it stores exactly
\* one new order and answers 201.
C15_NotFoundExactly ==
    [][PostOrdersStep =>
           IF C15_Absent(request'.body.productIds)
           THEN /\ response'.statusCode = 404
                /\ response'.body.message = "Some product was not found"
                /\ ordersDdb' = ordersDdb
           ELSE /\ response'.statusCode = 201
                /\ ordersDdb \subseteq ordersDdb'
                /\ Cardinality(ordersDdb' \ ordersDdb) = 1]_vars

\* ----------------------------------------------------------------- C16
\* C16: a POST /orders that the gateway's request model lets through is
\* answered by the orders handler with 201 or 404.
C16_NeverUnhandled ==
    (request.fn = "OrdersFunction" /\ request.via = "gateway"
         /\ request.resource = "/orders" /\ request.method = "POST")
        => response.statusCode \in {201, 404}

\* ----------------------------------------------------------------- C14
C14_Handlers == {"ProductsFunction", "OrdersFunction", "OrderEventsFetchFunction"}

C17_SuccessAfterWrite ==
    [][\A event \in invocations' \ invocations :
           \E i \in eventsDdb' :
               /\ i.requestId = event.requestId
               /\ i.eventType = event.eventType
               /\ i.info.productId = event.productId]_vars

\* ----------------------------------------------------------------- C18
PostProductsStep ==
    /\ reqNo' = reqNo + 1
    /\ request'.fn = "ProductsFunction"
    /\ request'.resource = "/products"
    /\ request'.method = "POST"

\* C18: POST /products answers 201 only when the product has been written
\* and its PRODUCT_CREATED event sent, and no PRODUCT_CREATED event is sent
\* or recorded for a product whose write to the products table failed.
C18_CreatedOnlyIfWritten ==
    [][PostProductsStep =>
           /\ response'.statusCode = 201 =>
                  /\ response'.body \in productsDdb'
                  /\ \E event \in invocations' \ invocations :
                         event.productId = response'.body.id
           /\ \A event \in invocations' \ invocations :
                  /\ event.eventType = "PRODUCT_CREATED"
                  /\ \E p \in productsDdb' : p.id = event.productId]_vars

\* ----------------------------------------------------------------- C19
C19_Carries(event, p) ==
    /\ event.productId = p.id
    /\ event.productCode = p.code
    /\ event.productPrice = p.price

\* C19: a PRODUCT_UPDATED or PRODUCT_DELETED event is sent only by a PUT or
\* DELETE of an id that existed, after the update or delete of the products
\* table has taken place, and it carries the id, code and price of the
\* product updated or deleted.
C19_EventAfterWrite ==
    [][\A event \in invocations' \ invocations :
           /\ event.eventType = "PRODUCT_UPDATED" =>
                  /\ request'.method = "PUT"
                  /\ event.productId = request'.pathId
                  /\ \E q \in productsDdb : q.id = event.productId
                  /\ \E p \in productsDdb' : C19_Carries(event, p)
           /\ event.eventType = "PRODUCT_DELETED" =>
                  /\ request'.method = "DELETE"
                  /\ event.productId = request'.pathId
                  /\ \E q \in productsDdb : C19_Carries(event, q)
                  /\ \A p \in productsDdb' : p.id # event.productId]_vars

\* An update of a product has changed its price and its event has been sent.
C19_UpdatedSent ==
    \E event \in invocations :
        /\ event.eventType = "PRODUCT_UPDATED"
        /\ \E p \in productsDdb : C19_Carries(event, p)
        /\ \E created_ \in invocations :
               /\ created_.eventType = "PRODUCT_CREATED"
               /\ created_.productId = event.productId
               /\ created_.productPrice # event.productPrice

\* ----------------------------------------------------------------- C20
\* The topic records the order-events function has handled, of those that
\* carry an eventType.
C20_Handled ==
    {m \in published \ orderEventsInbox :
         \E a \in m.MessageAttributes : a.Name = "eventType"}

\* C20: every topic record the order-events function has handled has its own
\* item in the events table: no record's item is overwritten by the item of
\* a record with another MessageId.
C20_NoEventLost ==
    \A m \in C20_Handled :
        \E i \in eventsDdb : C10_IsOrderItem(i) /\ i.info.messageId = m.MessageId

\* ----------------------------------------------------------------- C21
\* The key under which createEvent puts a record's item at the current time.
C21_PutOf(r, i) ==
    /\ i.pk = "#order_" \o r.Message.orderId
    /\ \E v \in EventTypeOf(r) : i.sk = v \o "#" \o ToString(now)
\* C21: an invocation of the order-events function succeeds (its records
\* become handled) only when the put of every record of its batch has
\* completed: each record it acknowledges has an eventType, and the table then
\* holds under that record's key an item written for a delivered record.
\* Hence a batch with a record whose put failed or never started fails.
C21_SuccessAfterAllPuts ==
    [][\A r \in orderEventsInbox :
           r.MessageId \in handled' \ handled =>
               \E i \in eventsDdb' :
                   /\ C21_PutOf(r, i)
                   /\ i.info.messageId \in {m.MessageId : m \in orderEventsInbox}]_vars
\* Two published records have both been handled and both items are stored.
C21_BatchStored ==
    /\ Cardinality(handled) = 2
    /\ \A m \in published :
           \E i \in eventsDdb : C10_IsOrderItem(i) /\ i.info.messageId = m.MessageId

\* ----------------------------------------------------------------- C22
C22_ItemsOf(m) ==
    {i \in eventsDdb : C10_IsOrderItem(i) /\ i.info.messageId = m.MessageId}
\* C22: however often a topic message is delivered to the order-events
\* function, the events table holds at most one item for its MessageId.
C22_OneItemPerMessage ==
    \A m \in published : Cardinality(C22_ItemsOf(m)) <= 1

\* ----------------------------------------------------------------- C23
\* The latest request is a GET /orders/events that carries no email.
C23_NoEmail ==
    /\ request.fn = "OrderEventsFetchFunction"
    /\ request.resource = "/orders/events"
    /\ request.method = "GET"
    /\ (~request.query.present \/ request.query.email = "")
\* C23: a GET /orders/events without an email query parameter, a request
\* without any query parameters included, is answered 400 'Bad request'.
C23_BadRequestWithoutEmail ==
    C23_NoEmail =>
        response.statusCode = 400 /\ response.body.message = "Bad request"

\* ----------------------------------------------------------------- C24
\* The step answers a GET /orders/events that carries an email.
C24_FetchByEmail ==
    /\ reqNo' = reqNo + 1
    /\ request'.fn = "OrderEventsFetchFunction"
    /\ request'.resource = "/orders/events"
    /\ request'.method = "GET"
    /\ request'.query.present
    /\ request'.query.email # ""
C24_Prefix(query) == IF query.eventType = "" THEN "ORDER_" ELSE query.eventType
C24_Selected(query) ==
    {i \in eventsDdb : i.email = query.email /\ BeginsWith(i.sk, C24_Prefix(query))}
\* e is item i reduced to the six fields of the answer.
C24_ReducedTo(i, e) ==
    /\ DOMAIN e \subseteq
           {"email", "createdAt", "eventType", "requestId", "orderId", "productCodes"}
    /\ e.email = i.email /\ e.createdAt = i.createdAt
    /\ e.eventType = i.eventType /\ e.requestId = i.requestId
    /\ "orderId" \in DOMAIN i.info =>
           /\ {"orderId", "productCodes"} \subseteq DOMAIN e
           /\ e.orderId = i.info.orderId
           /\ e.productCodes = i.info.productCodes
C26_Delete ==
    /\ reqNo' = reqNo + 1
    /\ request'.fn = "OrdersFunction"
    /\ request'.resource = "/orders"
    /\ request'.method = "DELETE"
    /\ request'.query.present
C26_Named(o, query) == o.pk = query.email /\ o.sk = query.orderId
\* C26: a DELETE /orders that names the email and orderId of a stored order
\* is answered 204, removes that item and no other, and leaves the other
\* orders and the products table as they are; the same request made again
\* is answered 404 and changes nothing.
C26_DeleteExactlyOnce ==
    [][/\ (C26_Delete /\ \E o \in ordersDdb : C26_Named(o, request'.query)) =>
             /\ response'.statusCode = 204
             /\ ordersDdb' = {o \in ordersDdb : ~C26_Named(o, request'.query)}
             /\ productsDdb' = productsDdb
       /\ (/\ C26_Delete
           /\ request.fn = "OrdersFunction" /\ request.method = "DELETE"
           /\ response.statusCode = 204
           /\ request'.query = request.query) =>
             /\ response'.statusCode = 404
             /\ response'.body.message = "Order not found"
             /\ UNCHANGED <<ordersDdb, productsDdb>>]_vars
\* A stored order has been deleted and a second DELETE that names it has been
\* answered 404, while another order of the same customer is still stored.
C26_DeletedTwice ==
    /\ reqNo = 2
    /\ request.fn = "OrdersFunction" /\ request.method = "DELETE"
    /\ response.statusCode = 404
    /\ \E n \in 1..uuids["OrdersFunction"] :
           request.query.orderId = Uuid("OrdersFunction", n)
    /\ \A o \in ordersDdb : o.sk # request.query.orderId
    /\ \E o \in ordersDdb : o.pk = request.query.email

\* ----------------------------------------------------------------- C27
RECURSIVE C27_Sum(_)
C27_Sum(embedded) ==
    IF embedded = <<>> THEN 0 ELSE Head(embedded).price + C27_Sum(Tail(embedded))
\* C27: a stored order is a snapshot. No request the products function
\* answers, a PUT or DELETE on /products/{id} included, changes a stored
\* order, its products list or its billing.totalPrice; and in every state
\* the totalPrice of every stored order is the sum of its embedded prices.
C27_OrderIsSnapshot ==
    /\ [](\A o \in ordersDdb : o.billing.totalPrice = C27_Sum(o.products))
    /\ [][(reqNo' = reqNo + 1 /\ request'.fn = "ProductsFunction") =>
              ordersDdb' = ordersDdb]_vars
\* A PUT has replaced a product that a stored order embeds: the products
\* table no longer holds a product with the embedded code and price.
C27_ProductChanged ==
    /\ request.fn = "ProductsFunction" /\ request.method = "PUT"
    /\ response.statusCode = 200
    /\ \E o \in ordersDdb : \E i \in 1..Len(o.products) :
           /\ \E p \in productsDdb : p.id = request.pathId /\ p.price # o.products[i].price
           /\ \A p \in productsDdb :
                  ~(p.code = o.products[i].code /\ p.price = o.products[i].price)

\* ----------------------------------------------------------------- C28
\* C28: a message of the order-events queue whose body is valid JSON is never
\* moved to the dead-letter queue, whatever other messages are received in
\* its batch.
C28_ValidNeverDeadLettered ==
    \A m \in orderEventsDlq : ~m.valid

\* ----------------------------------------------------------------- C29
\* Partition keys of the events table: an order's, a product's, another.
C29_Keys == {"#order_o1", "#product_c1", "#other_x"}
\* C29: the writers of the events table are confined by the prefix of the
\* partition key. The order-events function puts, and is permitted to put,
\* only items whose pk begins with '#order_'; the product-events function
\* only items whose pk begins with '#product_'.
C29_WritersConfined ==
    /\ \A i \in eventsDdb :
           IF C10_IsOrderItem(i) THEN BeginsWith(i.pk, "#order_")
           ELSE BeginsWith(i.pk, "#product_")
    /\ \A pk \in C29_Keys :
           /\ PermittedPut("OrderEventsFunction", pk) => BeginsWith(pk, "#order_")
           /\ PermittedPut("ProductEventsFunction", pk) => BeginsWith(pk, "#product_")
====
